---------------------------- MODULE Spec2Model ----------------------------
(***************************************************************************)
(* Camera controller, mouse movement tracker, grid geometry, render and    *)
(* compute passes, frame loop and log tasks of the sphere-bounds viewer.   *)
(*                                                                         *)
(* Arithmetic.  The program computes in f32.  The model computes exactly, *)
(* in integers: a world-space length is held in units of 1/Scale, and an  *)
(* orbit angle is held as a whole number of half turns (multiples of pi), *)
(* for which sin and cos of the half angle are 0, 1 or -1.  Pointer moves *)
(* are therefore drawn from multiples of OrbitDivisor pixels and wheel    *)
(* deltas from WheelDeltas.  Rounding of f32 is not modelled.             *)
(***************************************************************************)
EXTENDS Integers, Sequences, FiniteSets, TLC

VARIABLES
    camera_transform,        \* ControllerData.camera_transform
    mouse_wheel_delta,       \* ControllerData.mouse_wheel_delta
    mouse_tracking_session,  \* ControllerData.mouse_tracking_session
    camera,                  \* the Camera handed to update_camera
    trackers,                \* live pointer-move subscriptions: id -> Data
    pointer_lock,            \* whether the document holds pointer lock
    pointer_up_listeners,    \* pending one-shot pointer-up futures
    started_from,       \* the transform the session in the slot was built from
    lock_calls,              \* pointer-lock calls made by the last handler
    since_update,            \* what was handled since the last update_camera
    grids,                   \* GridsPass::init: the grids it is given
    grid_pc,                 \* GridsPass::init: where the construction is
    grid_i,                  \* GridsPass::init: the grid the outer loop is at
    loop_i,                  \* GridsPass::init: the inner loop's i
    vertex_data,             \* GridsPass::init: vertex_data
    index_data,              \* GridsPass::init: index_data
    index_offset,            \* GridsPass::init: index_offset
    draw_index_count,        \* DrawIndexed.index_count of the grid bundle
    spheres,                 \* the length of the spheres buffer
    sphere_bounds,           \* the length of the sphere_bounds buffer
    long_axes,               \* the length of the long_axes buffer
    occluder_circles,        \* the length of an occluder_circles buffer
    called,                  \* the pass function called last
    returned,                \* what that call returned
    queue,                   \* the queue operations that call made
    frame_pc,                \* main's loop: the step it is at
    frame_log,               \* main's loop: the steps of the current iteration
    readback,                \* the two log tasks and their readback buffers
    pass_inputs,             \* main's loop: the camera matrices each pass was given
    delivered,               \* the pointer-move events each live tracker was sent
    last_read                \* what movement() returned, if it was called last

controller_vars ==
    <<camera_transform, mouse_wheel_delta, mouse_tracking_session, camera,
      trackers, pointer_lock, pointer_up_listeners, started_from, lock_calls,
      since_update>>

grid_vars ==
    <<grids, grid_pc, grid_i, loop_i, vertex_data, index_data, index_offset,
      draw_index_count>>

pass_vars ==
    <<spheres, sphere_bounds, long_axes, occluder_circles, called, returned, queue>>

frame_vars == <<frame_pc, frame_log, readback, pass_inputs>>

tracker_vars == <<delivered, last_read>>

outside_controller == <<grid_vars, pass_vars, frame_vars, tracker_vars>>

outside_grids == <<controller_vars, pass_vars, frame_vars, tracker_vars>>

outside_passes == <<controller_vars, grid_vars, frame_vars, tracker_vars>>

\* What a tracker on its own leaves alone: all but the host and its own data.
outside_trackers ==
    <<camera_transform, mouse_wheel_delta, mouse_tracking_session, camera,
      pointer_up_listeners, started_from, since_update, grid_vars, pass_vars,
      frame_vars>>

vars == <<controller_vars, grid_vars, pass_vars, frame_vars, tracker_vars>>

---------------------------------------------------------------------------
(* Program constants *)

WheelDivisor == 1000

OrbitDivisor == 400

SidleDivisor == 80

\* const GROUP_SIZE: u32 = 256
GROUP_SIZE == 256

\* Units per world unit: the least resolution in which wheel_delta / 1000
\* and movement / 80 are both whole.
Scale == 2 * WheelDivisor

(* Bounds of the model *)

\* |mouse_wheel_delta| is kept within MaxWheelEvents wheel events of one sign.
MaxWheelEvents == 1

\* Each component of a tracker's movement is kept within MaxMoveSteps moves.
MaxMoveSteps == 1

\* Pointer-downs are delivered while fewer than MaxListeners pointer-up
\* futures are pending.
MaxListeners == 2

\* Wheel events and pointer moves are delivered while they keep the camera
\* and the orbit point within MaxReach world units of the origin, on every
\* axis, and of each other.
MaxReach == 7

\* A grid list holds at most MaxGrids grids, each of at most MaxGridSize
\* cells a side; the grid main configures is checked beside them.
MaxGrids == 2

MaxGridSize == 3

\* A loop whose end has wrapped runs MaxRunaway times before the
\* allocation that cannot succeed.
MaxRunaway == 2

\* An instance buffer other than the spheres holds at most MaxInstances
\* elements.
MaxInstances == 2

\* The spheres fill at most MaxGroups work-groups, and one sphere more.
MaxGroups == 2

\* At most MaxClicks clicks of a log button wait for its task.
MaxClicks == 2

\* A tracker on its own is sent at most MaxEvents pointer moves, and at
\* most MaxTrackers trackers are alive at once.
MaxEvents == 3

MaxTrackers == 2

Buttons == {"Primary", "Auxiliary", "Secondary"}

\* A wheel event moves the camera by half its initial distance.
WheelStep == (5 * WheelDivisor) \div 2

WheelDeltas == {-WheelStep, WheelStep}

\* A pointer move is half a turn of orbit, on one axis.
MoveDeltas == {<<-OrbitDivisor, 0>>, <<OrbitDivisor, 0>>, <<0, -OrbitDivisor>>, <<0, OrbitDivisor>>}

None == [kind |-> "None"]

---------------------------------------------------------------------------
(* glam vectors and quaternions, exact *)

Abs(n) == IF n < 0 THEN -n ELSE n

VAdd(a, b) == <<a[1] + b[1], a[2] + b[2], a[3] + b[3]>>

VSub(a, b) == <<a[1] - b[1], a[2] - b[2], a[3] - b[3]>>

VScale(a, k) == <<a[1] * k, a[2] * k, a[3] * k>>

VDiv(a, k) == <<a[1] \div k, a[2] \div k, a[3] \div k>>

Dot(a, b) == a[1] * b[1] + a[2] * b[2] + a[3] * b[3]

Cross(a, b) == <<a[2] * b[3] - a[3] * b[2],
                 a[3] * b[1] - a[1] * b[3],
                 a[1] * b[2] - a[2] * b[1]>>

RECURSIVE SqrtBetween(_, _, _)
SqrtBetween(n, lo, hi) ==
    IF lo >= hi THEN lo
    ELSE LET mid == (lo + hi + 1) \div 2
         IN  IF mid * mid <= n THEN SqrtBetween(n, mid, hi)
                               ELSE SqrtBetween(n, lo, mid - 1)

\* Vec3::length
Length(a) == SqrtBetween(Dot(a, a), 0, 40000)

\* Vec3::normalize: a / a.length(); the zero vector has no direction (the
\* program yields NaN components there).
Normalize(a) == VDiv(a, Length(a))

\* Quat::from_axis_angle(axis, k * pi) = (axis * sin(k pi / 2), cos(k pi / 2))
SinHalf(k) == CASE k % 4 = 0 -> 0 [] k % 4 = 1 -> 1 [] k % 4 = 2 -> 0 [] OTHER -> -1

CosHalf(k) == CASE k % 4 = 0 -> 1 [] k % 4 = 1 -> 0 [] k % 4 = 2 -> -1 [] OTHER -> 0

FromAxisAngle(axis, k) ==
    <<axis[1] * SinHalf(k), axis[2] * SinHalf(k), axis[3] * SinHalf(k), CosHalf(k)>>

\* Quat * Quat
QMul(p, q) ==
    <<p[4] * q[1] + p[1] * q[4] + p[2] * q[3] - p[3] * q[2],
      p[4] * q[2] - p[1] * q[3] + p[2] * q[4] + p[3] * q[1],
      p[4] * q[3] + p[1] * q[2] - p[2] * q[1] + p[3] * q[4],
      p[4] * q[4] - p[1] * q[1] - p[2] * q[2] - p[3] * q[3]>>

\* Quat * Vec3
QRotate(q, v) ==
    LET b == <<q[1], q[2], q[3]>>
        w == q[4]
    IN  VAdd(VAdd(VScale(v, w * w - Dot(b, b)), VScale(b, Dot(v, b) * 2)),
             VScale(Cross(b, v), w * 2))

Identity == <<0, 0, 0, 1>>

\* CameraTransform::up
Up(t) == QRotate(t.orientation, <<0, 1, 0>>)

\* CameraTransform::right
Right(t) == QRotate(t.orientation, <<1, 0, 0>>)

---------------------------------------------------------------------------
(* The host (document and canvas) as the handlers see it *)

Host(calls) == [trackers |-> trackers, pointer_lock |-> pointer_lock, calls |-> calls]

\* canvas_element.request_pointer_lock()
RequestPointerLock(h) ==
    [h EXCEPT !.pointer_lock = TRUE, !.calls = Append(@, "request_pointer_lock")]

\* window().document().exit_pointer_lock()
ExitPointerLock(h) ==
    [h EXCEPT !.pointer_lock = FALSE, !.calls = Append(@, "exit_pointer_lock")]

NoModifiers == [ctrl_key |-> FALSE, shift_key |-> FALSE, alt_key |-> FALSE, meta_key |-> FALSE]

ModifierStates == {NoModifiers}

\* The tracker a constructor is about to create.
FreshTracker(h) ==
    CHOOSE id \in 1..(Cardinality(DOMAIN h.trackers) + 1) : id \notin DOMAIN h.trackers

\* MouseMovementTracker::pointer_locked
TrackerPointerLocked(h) ==
    LET locked == RequestPointerLock(h)
        data == [movement |-> <<0, 0>>, origin |-> None, modifiers |-> NoModifiers,
                 pointer_lock |-> TRUE]
    IN  [locked EXCEPT !.trackers = (FreshTracker(h) :> data) @@ h.trackers]

\* A pointer-locked tracker that reports the last event's delta.
TrackerOnMoveLatest(data, delta, modifiers) ==
    [data EXCEPT !.movement = delta, !.modifiers = modifiers]

\* The pointer-move task of a pointer-locked tracker.
TrackerOnMove(data, delta, modifiers) ==
    [data EXCEPT !.movement = <<@[1] + delta[1], @[2] + delta[2]>>,
                 !.modifiers = modifiers]

\* MouseMovementTracker::movement
Movement(all, id) == all[id].movement

\* A drop that releases the pointer lock and leaves the subscription.
DropTrackerStillSubscribed(h, id) ==
    IF h.trackers[id].pointer_lock THEN ExitPointerLock(h) ELSE h

\* impl Drop for MouseMovementTracker
DropTracker(h, id) ==
    LET aborted == [h EXCEPT !.trackers = [i \in DOMAIN h.trackers \ {id} |-> h.trackers[i]]]
    IN  IF h.trackers[id].pointer_lock THEN ExitPointerLock(aborted) ELSE aborted

---------------------------------------------------------------------------
(* Sessions *)

\* An orbit session that keeps the position instead of the position
\* relative to the orbit point.
OrbitSessionInitAbsolute(id, initial_transform) ==
    [kind |-> "Orbit",
     tracker |-> id,
     orbit_point |-> initial_transform.orbit_point,
     initial_orientation |-> initial_transform.orientation,
     initial_relative_position |-> initial_transform.position]

\* OrbitSession::init
OrbitSessionInit(id, initial_transform) ==
    [kind |-> "Orbit",
     tracker |-> id,
     orbit_point |-> initial_transform.orbit_point,
     initial_orientation |-> initial_transform.orientation,
     initial_relative_position |->
         VSub(initial_transform.position, initial_transform.orbit_point)]

\* The angle -movement / 400 * PI, in half turns.
HalfTurns(movement) == (-movement) \div OrbitDivisor

\* An orbit that rotates the controller's current transform instead of the
\* session's snapshot.
OrbitIntegrated(session, mouse_movement) ==
    LET pan == FromAxisAngle(<<0, 1, 0>>, HalfTurns(mouse_movement[1]))
        panned_orientation == QMul(pan, camera_transform.orientation)
        right == QRotate(panned_orientation, <<1, 0, 0>>)
        tilt == FromAxisAngle(right, HalfTurns(mouse_movement[2]))
        rotation == QMul(tilt, pan)
    IN  [position |-> VAdd(session.orbit_point,
                           QRotate(rotation, VSub(camera_transform.position,
                                                  session.orbit_point))),
         orientation |-> QMul(rotation, camera_transform.orientation),
         orbit_point |-> session.orbit_point]

\* OrbitSession::current_transform
OrbitCurrentTransform(session, mouse_movement) ==
    LET pan == FromAxisAngle(<<0, 1, 0>>, HalfTurns(mouse_movement[1]))
        panned_orientation == QMul(pan, session.initial_orientation)
        right == QRotate(panned_orientation, <<1, 0, 0>>)
        tilt == FromAxisAngle(right, HalfTurns(mouse_movement[2]))
        rotation == QMul(tilt, pan)
    IN  [position |-> VAdd(session.orbit_point,
                           QRotate(rotation, session.initial_relative_position)),
         orientation |-> QMul(rotation, session.initial_orientation),
         orbit_point |-> session.orbit_point]

\* SidleSession::init
SidleSessionInit(id, initial_transform) ==
    [kind |-> "Sidle",
     tracker |-> id,
     orientation |-> initial_transform.orientation,
     initial_position |-> initial_transform.position,
     initial_orbit_point |-> initial_transform.orbit_point,
     up |-> Up(initial_transform),
     right |-> Right(initial_transform)]

\* A sidle with the two pointer axes exchanged.
SidleAxesExchanged(session, mouse_movement) ==
    LET translation ==
            VAdd(VDiv(VScale(session.up, mouse_movement[1] * Scale), SidleDivisor),
                 VDiv(VScale(session.right, (-mouse_movement[2]) * Scale), SidleDivisor))
    IN  [position |-> VAdd(session.initial_position, translation),
         orientation |-> session.orientation,
         orbit_point |-> VAdd(session.initial_orbit_point, translation)]

\* A sidle that moves the camera and leaves the orbit point behind.
SidleLeavesOrbitPoint(session, mouse_movement) ==
    LET translation ==
            VAdd(VDiv(VScale(session.up, mouse_movement[2] * Scale), SidleDivisor),
                 VDiv(VScale(session.right, (-mouse_movement[1]) * Scale), SidleDivisor))
    IN  [position |-> VAdd(session.initial_position, translation),
         orientation |-> session.orientation,
         orbit_point |-> session.initial_orbit_point]

\* SidleSession::current_transform
SidleCurrentTransform(session, mouse_movement) ==
    LET translation ==
            VAdd(VDiv(VScale(session.up, mouse_movement[2] * Scale), SidleDivisor),
                 VDiv(VScale(session.right, (-mouse_movement[1]) * Scale), SidleDivisor))
    IN  [position |-> VAdd(session.initial_position, translation),
         orientation |-> session.orientation,
         orbit_point |-> VAdd(session.initial_orbit_point, translation)]

\* MouseTrackingSession::current_transform
CurrentTransform(session, all) ==
    IF session.kind = "Orbit"
    THEN OrbitCurrentTransform(session, Movement(all, session.tracker))
    ELSE SidleCurrentTransform(session, Movement(all, session.tracker))

\* Dropping the value in the session slot: OrbitSession's own Drop runs
\* first, then its fields (the tracker) are dropped; SidleSession has no
\* Drop of its own.
DropSession(h, session) ==
    CASE session.kind = "Orbit" -> DropTracker(ExitPointerLock(h), session.tracker)
      [] session.kind = "Sidle" -> DropTracker(h, session.tracker)
      [] OTHER -> h

---------------------------------------------------------------------------
(* The controller *)

\* CameraController::init, with the camera main builds
ControllerInit ==
    /\ camera = [position |-> <<0, 0, 5 * Scale>>, orientation |-> Identity]
    /\ camera_transform = [position |-> camera.position,
                           orientation |-> camera.orientation,
                           orbit_point |-> <<0, 0, 0>>]
    /\ mouse_wheel_delta = 0
    /\ mouse_tracking_session = None
    /\ trackers = <<>>
    /\ pointer_lock = FALSE
    /\ pointer_up_listeners = 0
    /\ started_from = None
    /\ lock_calls = <<>>
    /\ since_update = "events"

WithinReach(t) ==
    /\ \A i \in 1..3 : Abs(t.position[i]) <= MaxReach * Scale
    /\ \A i \in 1..3 : Abs(t.orbit_point[i]) <= MaxReach * Scale

\* on_context_menu task: the default action is prevented, nothing else
ContextMenu ==
    /\ lock_calls' = <<>>
    /\ since_update' = IF since_update = "moved" THEN "moved" ELSE "events"
    /\ UNCHANGED outside_controller
    /\ UNCHANGED <<camera_transform, mouse_wheel_delta, mouse_tracking_session, camera,
                   trackers, pointer_lock, pointer_up_listeners, started_from>>

\* A wheel task that moves the camera itself, along its z axis.
WheelMovesCamera(delta_y) ==
    /\ Abs(mouse_wheel_delta + delta_y) <= MaxWheelEvents * WheelStep
    /\ camera' = [camera EXCEPT !.position = VAdd(@, <<0, 0, delta_y>>)]
    /\ mouse_wheel_delta' = mouse_wheel_delta + delta_y
    /\ lock_calls' = <<>>
    /\ since_update' = IF since_update = "moved" THEN "moved" ELSE "events"
    /\ UNCHANGED outside_controller
    /\ UNCHANGED <<camera_transform, mouse_tracking_session, trackers, pointer_lock,
                   pointer_up_listeners, started_from>>

\* on_wheel task (after event.prevent_default())
Wheel(delta_y) ==
    /\ Abs(mouse_wheel_delta + delta_y) <= MaxWheelEvents * WheelStep
    /\ delta_y < 0 =>
           Length(VSub(camera_transform.orbit_point, camera_transform.position))
               + ((-(mouse_wheel_delta + delta_y)) * Scale) \div WheelDivisor <= MaxReach * Scale
    /\ mouse_wheel_delta' = mouse_wheel_delta + delta_y
    /\ lock_calls' = <<>>
    /\ since_update' = IF since_update = "moved" THEN "moved" ELSE "events"
    /\ UNCHANGED outside_controller
    /\ UNCHANGED <<camera_transform, mouse_tracking_session, camera,
                   trackers, pointer_lock, pointer_up_listeners, started_from>>

\* A pointer-down task that takes the sidle button for the orbit button
\* and the orbit button for the sidle button.
StartSessionExchanged(button, h) ==
    LET created == TrackerPointerLocked(h)
        id == FreshTracker(h)
        session == IF button = "Secondary"
                   THEN SidleSessionInit(id, camera_transform)
                   ELSE OrbitSessionInit(id, camera_transform)
    IN  [session |-> session, host |-> DropSession(created, mouse_tracking_session)]

\* A pointer-down task whose session snapshots the transform the
\* controller was constructed with.
StartSessionFromFirstTransform(button, h) ==
    LET created == TrackerPointerLocked(h)
        id == FreshTracker(h)
        first == [position |-> <<0, 0, 5 * Scale>>,
                  orientation |-> Identity,
                  orbit_point |-> <<0, 0, 0>>]
        session == IF button = "Auxiliary"
                   THEN SidleSessionInit(id, first)
                   ELSE OrbitSessionInit(id, first)
    IN  [session |-> session, host |-> DropSession(created, mouse_tracking_session)]

\* A slot assignment that leaves the session it replaces alive.
StartSessionKeepingOld(button, h) ==
    LET created == TrackerPointerLocked(h)
        id == FreshTracker(h)
        session == IF button = "Auxiliary"
                   THEN SidleSessionInit(id, camera_transform)
                   ELSE OrbitSessionInit(id, camera_transform)
    IN  [session |-> session, host |-> created]

\* The slot assignment of the pointer-down task: the new session is built
\* (its tracker requests pointer lock and subscribes), then the value the
\* slot held is dropped.
StartSession(button, h) ==
    LET created == TrackerPointerLocked(h)
        id == FreshTracker(h)
        session == IF button = "Auxiliary"
                   THEN SidleSessionInit(id, camera_transform)
                   ELSE OrbitSessionInit(id, camera_transform)
    IN  [session |-> session, host |-> DropSession(created, mouse_tracking_session)]

\* on_pointer_down task (after event.prevent_default())
PointerDown(button) ==
    /\ pointer_up_listeners < MaxListeners
    /\ IF button \in {"Auxiliary", "Secondary"}
       THEN LET started == StartSession(button, Host(<<>>))
            IN  /\ mouse_tracking_session' = started.session
                /\ trackers' = started.host.trackers
                /\ pointer_lock' = started.host.pointer_lock
                /\ lock_calls' = started.host.calls
                /\ pointer_up_listeners' = pointer_up_listeners + 1
                /\ started_from' = camera_transform
       ELSE /\ lock_calls' = <<>>
            /\ UNCHANGED <<mouse_tracking_session, trackers, pointer_lock,
                           pointer_up_listeners, started_from>>
    /\ since_update' = IF since_update = "moved" THEN "moved" ELSE "events"
    /\ UNCHANGED outside_controller
    /\ UNCHANGED <<camera_transform, mouse_wheel_delta, camera>>

\* Pointer-up futures that wait for the button their session began with.
TakesOwnPointerUp(button) ==
    button = IF mouse_tracking_session.kind = "Orbit" THEN "Secondary" ELSE "Auxiliary"

\* Whether the one-shot pointer-up futures take a pointer-up of this button:
\* on_pointer_up().into_future() takes the next pointer-up, whatever its button.
TakesPointerUp(button) == TRUE

\* A pointer-up on the canvas: every pending future sets the slot to None;
\* the first drops the session, the others find the slot empty.
PointerUp(button) ==
    /\ IF pointer_up_listeners > 0 /\ TakesPointerUp(button)
       THEN LET h == DropSession(Host(<<>>), mouse_tracking_session)
            IN  /\ mouse_tracking_session' = None
                /\ trackers' = h.trackers
                /\ pointer_lock' = h.pointer_lock
                /\ lock_calls' = h.calls
                /\ pointer_up_listeners' = 0
                /\ started_from' = None
       ELSE /\ lock_calls' = <<>>
            /\ UNCHANGED <<mouse_tracking_session, trackers, pointer_lock,
                           pointer_up_listeners, started_from>>
    /\ since_update' = IF since_update = "moved" THEN "moved" ELSE "events"
    /\ UNCHANGED outside_controller
    /\ UNCHANGED <<camera_transform, mouse_wheel_delta, camera>>

\* A pointer-move on the canvas, delivered to every live subscription.
PointerMove(delta, modifiers) ==
    /\ \A id \in DOMAIN trackers :
           LET moved == TrackerOnMove(trackers[id], delta, modifiers).movement
           IN  /\ Abs(moved[1]) <= MaxMoveSteps * OrbitDivisor
               /\ Abs(moved[2]) <= MaxMoveSteps * OrbitDivisor
    /\ mouse_tracking_session # None =>
           WithinReach(CurrentTransform(mouse_tracking_session,
               [id \in DOMAIN trackers |-> TrackerOnMove(trackers[id], delta, modifiers)]))
    /\ trackers' = [id \in DOMAIN trackers |-> TrackerOnMove(trackers[id], delta, modifiers)]
    /\ lock_calls' = <<>>
    /\ since_update' = "moved"
    /\ UNCHANGED outside_controller
    /\ UNCHANGED <<camera_transform, mouse_wheel_delta, mouse_tracking_session, camera,
                   pointer_lock, pointer_up_listeners, started_from>>

\* A dolly with no clamp.
DollyUnclamped(transform, wheel_delta) ==
    LET difference == VSub(transform.orbit_point, transform.position)
        direction == Normalize(difference)
        translation == VDiv(VScale(direction, wheel_delta * Scale), WheelDivisor)
    IN  [transform EXCEPT !.position = VAdd(@, translation)]

\* A dolly whose clamp admits a translation as long as the distance.
DollyClampNotStrict(transform, wheel_delta) ==
    LET difference == VSub(transform.orbit_point, transform.position)
        distance == Length(difference)
        direction == Normalize(difference)
        translation == VDiv(VScale(direction, wheel_delta * Scale), WheelDivisor)
    IN  IF Length(translation) <= distance \/ wheel_delta < 0
        THEN [transform EXCEPT !.position = VAdd(@, translation)]
        ELSE transform

\* The dolly branch of update_camera: the transform after it.
Dolly(transform, wheel_delta) ==
    LET difference == VSub(transform.orbit_point, transform.position)
        distance == Length(difference)
        direction == Normalize(difference)
        translation == VDiv(VScale(direction, wheel_delta * Scale), WheelDivisor)
    IN  IF Length(translation) < distance \/ wheel_delta < 0
        THEN [transform EXCEPT !.position = VAdd(@, translation)]
        ELSE transform

\* A controller that never consumes the wheel delta.
WheelNeverReset(session, wheel_delta) == wheel_delta

\* The wheel delta update_camera leaves behind.
WheelAfterUpdate(session, wheel_delta) == IF session # None THEN wheel_delta ELSE 0

\* An update_camera that sets the camera's position and leaves its
\* orientation as it was.
CameraSetPositionOnly(transform) ==
    [position |-> transform.position, orientation |-> camera.orientation]

\* camera.set_position and camera.set_orientation at the end of
\* update_camera: the camera they leave.
CameraSet(transform) ==
    [position |-> transform.position, orientation |-> transform.orientation]

\* CameraController::update_camera, as its caller sees it
UpdateCameraCall ==
    /\ camera_transform' =
           IF mouse_tracking_session # None
           THEN CurrentTransform(mouse_tracking_session, trackers)
           ELSE Dolly(camera_transform, mouse_wheel_delta)
    /\ mouse_wheel_delta' = WheelAfterUpdate(mouse_tracking_session, mouse_wheel_delta)
    /\ camera' = CameraSet(camera_transform')
    /\ lock_calls' = <<>>
    /\ since_update' = "none"
    /\ UNCHANGED <<mouse_tracking_session, trackers, pointer_lock, pointer_up_listeners,
                   started_from>>

\* The update_camera of a frame, the rest of the frame left out.
UpdateCamera ==
    /\ UpdateCameraCall
    /\ UNCHANGED outside_controller

\* The grid pass before its construction has begun.
GridsIdle ==
    /\ grids = <<>>
    /\ grid_pc = "idle"
    /\ grid_i = 0
    /\ loop_i = 0
    /\ vertex_data = <<>>
    /\ index_data = <<>>
    /\ index_offset = 0
    /\ draw_index_count = 0

\* No pass function has been called; the buffers are the ones main creates
\* for its one sphere.
PassesIdle ==
    /\ spheres = 1
    /\ sphere_bounds = 1
    /\ long_axes = 1
    /\ occluder_circles = 0
    /\ called = None
    /\ returned = None
    /\ queue = <<>>

ReadbackBuffers == {"sphere_bounds", "long_axes"}

\* A log task at `on_click.next().await`, its readback buffer unmapped.
ReadbackIdle == [pc |-> "await_click", clicks |-> 0, state |-> "unmapped", log |-> <<>>]

\* main at its first request_animation_frame().await
FrameIdle ==
    /\ frame_pc = "await_frame"
    /\ frame_log = <<>>
    /\ readback = [b \in ReadbackBuffers |-> ReadbackIdle]
    /\ pass_inputs = <<>>

\* No tracker is followed on its own.
TrackersIdle ==
    /\ delivered = <<>>
    /\ last_read = None

Init == ControllerInit /\ GridsIdle /\ PassesIdle /\ FrameIdle /\ TrackersIdle

Next ==
    \/ ContextMenu
    \/ \E delta_y \in WheelDeltas : Wheel(delta_y)
    \/ \E button \in Buttons : PointerUp(button)
    \/ \E button \in Buttons : PointerDown(button)
    \/ \E delta \in MoveDeltas, modifiers \in ModifierStates : PointerMove(delta, modifiers)
    \/ UpdateCamera

Spec == Init /\ [][Next]_vars

---------------------------------------------------------------------------
(* GridsPass::init: the vertex and index data of the grid bundle *)

\* The grids main hands to the renderer.
ConfiguredGrids == <<[width |-> 20, height |-> 20]>>

GridShapes == [width : 0..MaxGridSize, height : 0..MaxGridSize]

GridLists == {ConfiguredGrids} \cup UNION {[1..n -> GridShapes] : n \in 0..MaxGrids}

\* `as u16`
AsU16(n) == n % 65536

\* let vertex_count = (width + 1) * (height + 1): what vertex_data.reserve is given
VertexCount(grid) == (grid.width + 1) * (grid.height + 1)

\* let index_count = 4 + (width + height) * 2
IndexCount(grid) == 4 + (grid.width + grid.height) * 2

\* A vertex, by the grid whose transform it is under and its position in
\* that grid's plane, doubled (min_x = width / 2 is then width).
Vertex(g, x, y) == [grid |-> g, x |-> x, y |-> y]

\* A range that takes its end as well.
InRangeInclusive(i, end) == i <= end

\* i in start..end, for the i the loop has reached
InRange(i, end) == i < end

\* A range end that stops at zero (n.saturating_sub(1)).
RangeEndSaturating(n) == IF n = 0 THEN 0 ELSE n - 1

\* The end of 0..n - 1 in usize: for n = 0 the subtraction overflows, and a
\* build without overflow checks wraps it to 2^64 - 1, held here as -1.
RangeEnd(n) == n - 1

Wrapped(end) == end < 0

GridsInit ==
    /\ grids \in GridLists
    /\ grid_pc = "grid"
    /\ grid_i = 1
    /\ loop_i = 0
    /\ vertex_data = <<>>
    /\ index_data = <<>>
    /\ index_offset = 0
    /\ draw_index_count = 0

\* for grid in grids: the four corners, counter-clockwise
PushCorners ==
    /\ grid_pc = "grid"
    /\ grid_i <= Len(grids)
    /\ LET w == grids[grid_i].width
           h == grids[grid_i].height
       IN  vertex_data' = vertex_data \o
               <<Vertex(grid_i, -w, -h), Vertex(grid_i, w, -h),
                 Vertex(grid_i, w, h), Vertex(grid_i, -w, h)>>
    /\ grid_pc' = "width_vertices"
    /\ loop_i' = 1
    /\ UNCHANGED <<grids, grid_i, index_data, index_offset, draw_index_count>>
    /\ UNCHANGED outside_grids

\* for i in 1..width
PushWidthVertices ==
    /\ grid_pc = "width_vertices"
    /\ LET w == grids[grid_i].width
           h == grids[grid_i].height
           x == 2 * loop_i - w
       IN  IF InRange(loop_i, w)
           THEN /\ vertex_data' = vertex_data \o
                        <<Vertex(grid_i, x, -h), Vertex(grid_i, x, h)>>
                /\ loop_i' = loop_i + 1
                /\ UNCHANGED grid_pc
           ELSE /\ grid_pc' = "height_vertices"
                /\ loop_i' = 1
                /\ UNCHANGED vertex_data
    /\ UNCHANGED <<grids, grid_i, index_data, index_offset, draw_index_count>>
    /\ UNCHANGED outside_grids

\* for i in 1..height
PushHeightVertices ==
    /\ grid_pc = "height_vertices"
    /\ LET w == grids[grid_i].width
           h == grids[grid_i].height
           y == 2 * loop_i - h
       IN  IF InRange(loop_i, h)
           THEN /\ vertex_data' = vertex_data \o
                        <<Vertex(grid_i, -w, y), Vertex(grid_i, w, y)>>
                /\ loop_i' = loop_i + 1
                /\ UNCHANGED grid_pc
           ELSE /\ grid_pc' = "corner_indices"
                /\ loop_i' = 0
                /\ UNCHANGED vertex_data
    /\ UNCHANGED <<grids, grid_i, index_data, index_offset, draw_index_count>>
    /\ UNCHANGED outside_grids

\* The lines connecting the corners
PushCornerIndices ==
    /\ grid_pc = "corner_indices"
    /\ index_data' = index_data \o
           <<index_offset + 0, index_offset + 1, index_offset + 1, index_offset + 2,
             index_offset + 2, index_offset + 3, index_offset + 3, index_offset + 0>>
    /\ grid_pc' = "width_indices"
    /\ loop_i' = 0
    /\ UNCHANGED <<grids, grid_i, vertex_data, index_offset, draw_index_count>>
    /\ UNCHANGED outside_grids

\* for i in 0..width - 1
PushWidthIndices ==
    /\ grid_pc = "width_indices"
    /\ LET end == RangeEnd(grids[grid_i].width)
       IN  IF Wrapped(end) /\ loop_i >= MaxRunaway
           THEN /\ grid_pc' = "aborted"
                /\ UNCHANGED <<index_data, loop_i>>
           ELSE IF Wrapped(end) \/ InRange(loop_i, end)
           THEN /\ index_data' = index_data \o
                        <<index_offset + AsU16(loop_i * 2 + 4),
                          index_offset + AsU16(loop_i * 2 + 5)>>
                /\ loop_i' = loop_i + 1
                /\ UNCHANGED grid_pc
           ELSE /\ grid_pc' = "height_indices"
                /\ loop_i' = 0
                /\ UNCHANGED index_data
    /\ UNCHANGED <<grids, grid_i, vertex_data, index_offset, draw_index_count>>
    /\ UNCHANGED outside_grids

\* let offset = 4 + (width - 1) * 2; for i in 0..height - 1
PushHeightIndices ==
    /\ grid_pc = "height_indices"
    /\ LET end == RangeEnd(grids[grid_i].height)
           offset == 4 + (grids[grid_i].width - 1) * 2
       IN  IF Wrapped(end) /\ loop_i >= MaxRunaway
           THEN /\ grid_pc' = "aborted"
                /\ UNCHANGED <<index_data, loop_i>>
           ELSE IF Wrapped(end) \/ InRange(loop_i, end)
           THEN /\ index_data' = index_data \o
                        <<index_offset + AsU16(loop_i * 2 + offset),
                          index_offset + AsU16(loop_i * 2 + offset + 1)>>
                /\ loop_i' = loop_i + 1
                /\ UNCHANGED grid_pc
           ELSE /\ grid_pc' = "advance"
                /\ UNCHANGED <<index_data, loop_i>>
    /\ UNCHANGED <<grids, grid_i, vertex_data, index_offset, draw_index_count>>
    /\ UNCHANGED outside_grids

\* width - 1 or height - 1 below zero in a build with overflow checks
SubtractOverflowPanic ==
    /\ loop_i = 0
    /\ \/ grid_pc = "width_indices" /\ grids[grid_i].width = 0
       \/ grid_pc = "height_indices" /\ grids[grid_i].height = 0
    /\ grid_pc' = "panicked"
    /\ UNCHANGED <<grids, grid_i, loop_i, vertex_data, index_data, index_offset,
                   draw_index_count>>
    /\ UNCHANGED outside_grids

\* index_offset += index_count as u16
AdvanceGrid ==
    /\ grid_pc = "advance"
    /\ index_offset' = AsU16(index_offset + AsU16(IndexCount(grids[grid_i])))
    /\ grid_i' = grid_i + 1
    /\ grid_pc' = "grid"
    /\ UNCHANGED <<grids, loop_i, vertex_data, index_data, draw_index_count>>
    /\ UNCHANGED outside_grids

\* A draw call that counts the vertices where it should count the indices.
DrawVertexCount(indices) == Len(vertex_data)

\* index_count: index_data.len() as u32
DrawIndexCount(indices) == Len(indices)

\* The buffers and the bundle's draw_indexed, once the loop has ended
DrawIndexed ==
    /\ grid_pc = "grid"
    /\ grid_i > Len(grids)
    /\ draw_index_count' = DrawIndexCount(index_data)
    /\ grid_pc' = "done"
    /\ UNCHANGED <<grids, grid_i, loop_i, vertex_data, index_data, index_offset>>
    /\ UNCHANGED outside_grids

GridInit == ControllerInit /\ GridsInit /\ PassesIdle /\ FrameIdle /\ TrackersIdle

GridNext ==
    \/ PushCorners
    \/ PushWidthVertices
    \/ PushHeightVertices
    \/ PushCornerIndices
    \/ PushWidthIndices
    \/ PushHeightIndices
    \/ SubtractOverflowPanic
    \/ AdvanceGrid
    \/ DrawIndexed

GridSpec == GridInit /\ [][GridNext]_vars

---------------------------------------------------------------------------
(* The render passes, the compute passes and Renderer::render *)
(* A buffer is held by its length; usize is 32 bits wide on the wasm32     *)
(* target, so `len() as u32` keeps the length.                             *)

RenderPasses == {"spheres", "bounding_rects", "long_axes", "occluder_circles"}

ComputePasses == {"bounds", "long_axis", "occluder_circles"}

\* The lengths a spheres buffer takes: a few, and those about the
\* multiples of the work-group size.
SphereCounts ==
    0..MaxInstances \cup
    {k * GROUP_SIZE + d : k \in 1..MaxGroups, d \in {-1, 0, 1}}

\* Some(bundle): the bundle by its pass and its draw calls
Bundle(pass, instance_count) ==
    [kind |-> "Some", pass |-> pass, draws |-> <<[instance_count |-> instance_count]>>]

\* A render_bundle without the early return for an empty buffer.
RenderBundleOfAnyLength(bounding_rects) == Bundle("bounding_rects", bounding_rects)

\* SpheresPass::render_bundle: the bundle and the uniform writes it queues
SpheresRenderBundle(n) ==
    IF n = 0
    THEN [bundle |-> None, writes |-> <<>>]
    ELSE [bundle |-> Bundle("spheres", n),
          writes |-> <<[op |-> "write_buffer", pass |-> "spheres"]>>]

\* BoundingRectsPass::render_bundle
BoundingRectsRenderBundle(bounding_rects) ==
    IF bounding_rects = 0 THEN None ELSE Bundle("bounding_rects", bounding_rects)

\* LongAxesPass::render_bundle
LongAxesRenderBundle(n) ==
    IF n = 0 THEN None ELSE Bundle("long_axes", n)

\* OccluderCirclesPass::render_bundle
OccluderCirclesRenderBundle(n) ==
    IF n = 0 THEN None ELSE Bundle("occluder_circles", n)

\* GridsPass::render_bundle: the bundle built at init (one instance)
GridsRenderBundle ==
    [bundle |-> Bundle("grids", 1),
     writes |-> <<[op |-> "write_buffer", pass |-> "grids"]>>]

\* SkyGradientPass::render_bundle: the bundle built at init (one instance)
SkyRenderBundle ==
    [bundle |-> Bundle("sky", 1),
     writes |-> <<[op |-> "write_buffer", pass |-> "sky"]>>]

\* u32::div_ceil rounding down.
DivFloor(a, b) == a \div b

\* u32::div_ceil
DivCeil(a, b) == IF a % b > 0 THEN (a \div b) + 1 ELSE a \div b

\* begin_compute_pass() ... dispatch_workgroups(..).end(), as encode appends it
ComputePass(pass, n, output) ==
    [cmd |-> "compute_pass", pass |-> pass, spheres |-> n, output |-> output,
     count_x |-> DivCeil(n, GROUP_SIZE), count_y |-> 1, count_z |-> 1]

\* ComputeSphereBounds::encode
ComputeSphereBoundsEncode(encoder, n, output) ==
    Append(encoder, ComputePass("bounds", n, output))

\* ComputeLongAxesPass::encode
ComputeLongAxesEncode(encoder, n, output) ==
    Append(encoder, ComputePass("long_axis", n, output))

\* ComputeOccluderCirclesPass::encode
ComputeOccluderCirclesEncode(encoder, n, output) ==
    Append(encoder, ComputePass("occluder_circles", n, output))

ExecuteBundle(encoder, bundle) ==
    Append(encoder, [cmd |-> "execute_bundle", bundle |-> bundle])

ExecuteSome(encoder, bundle) ==
    IF bundle # None THEN ExecuteBundle(encoder, bundle) ELSE encoder

\* A render that executes the long axes before the bounding rectangles.
RenderLongAxesFirst(n, bounds, axes) ==
    LET spheres_bundle == SpheresRenderBundle(n)
        begun == <<[cmd |-> "begin_render_pass"]>>
        fixed == ExecuteBundle(ExecuteBundle(begun, GridsRenderBundle.bundle),
                               SkyRenderBundle.bundle)
        dynamic == ExecuteSome(ExecuteSome(ExecuteSome(fixed, spheres_bundle.bundle),
                       LongAxesRenderBundle(axes)), BoundingRectsRenderBundle(bounds))
    IN  GridsRenderBundle.writes \o SkyRenderBundle.writes \o spheres_bundle.writes \o
        <<[op |-> "submit", commands |-> Append(dynamic, [cmd |-> "end"])]>>

\* Renderer::render: the queue operations of one call
RendererRender(n, bounds, axes) ==
    LET grids_bundle == GridsRenderBundle
        sky_bundle == SkyRenderBundle
        spheres_bundle == SpheresRenderBundle(n)
        bounding_rects_bundle == BoundingRectsRenderBundle(bounds)
        long_axes_bundle == LongAxesRenderBundle(axes)
        begun == <<[cmd |-> "begin_render_pass"]>>
        with_grids == ExecuteBundle(begun, grids_bundle.bundle)
        with_sky == ExecuteBundle(with_grids, sky_bundle.bundle)
        with_spheres == ExecuteSome(with_sky, spheres_bundle.bundle)
        with_rects == ExecuteSome(with_spheres, bounding_rects_bundle)
        with_axes == ExecuteSome(with_rects, long_axes_bundle)
        command_buffer == Append(with_axes, [cmd |-> "end"])
    IN  grids_bundle.writes \o sky_bundle.writes \o spheres_bundle.writes \o
        <<[op |-> "submit", commands |-> command_buffer]>>

\* The buffers a caller of the passes holds.
PassesInit ==
    /\ spheres \in SphereCounts
    /\ sphere_bounds \in 0..MaxInstances
    /\ long_axes \in 0..MaxInstances
    /\ occluder_circles \in 0..MaxInstances
    /\ called = None
    /\ returned = None
    /\ queue = <<>>

CallSpheresRenderBundle ==
    /\ called' = [fn |-> "render_bundle", pass |-> "spheres", instances |-> spheres]
    /\ returned' = SpheresRenderBundle(spheres).bundle
    /\ queue' = SpheresRenderBundle(spheres).writes
    /\ UNCHANGED <<spheres, sphere_bounds, long_axes, occluder_circles>>
    /\ UNCHANGED outside_passes

CallBoundingRectsRenderBundle ==
    /\ called' = [fn |-> "render_bundle", pass |-> "bounding_rects",
                  instances |-> sphere_bounds]
    /\ returned' = BoundingRectsRenderBundle(sphere_bounds)
    /\ queue' = <<>>
    /\ UNCHANGED <<spheres, sphere_bounds, long_axes, occluder_circles>>
    /\ UNCHANGED outside_passes

CallLongAxesRenderBundle ==
    /\ called' = [fn |-> "render_bundle", pass |-> "long_axes", instances |-> long_axes]
    /\ returned' = LongAxesRenderBundle(long_axes)
    /\ queue' = <<>>
    /\ UNCHANGED <<spheres, sphere_bounds, long_axes, occluder_circles>>
    /\ UNCHANGED outside_passes

CallOccluderCirclesRenderBundle ==
    /\ called' = [fn |-> "render_bundle", pass |-> "occluder_circles",
                  instances |-> occluder_circles]
    /\ returned' = OccluderCirclesRenderBundle(occluder_circles)
    /\ queue' = <<>>
    /\ UNCHANGED <<spheres, sphere_bounds, long_axes, occluder_circles>>
    /\ UNCHANGED outside_passes

\* A compute pass's encode on a fresh encoder; what returns is the encoder.
CallEncode(pass) ==
    /\ called' = [fn |-> "encode", pass |-> pass, instances |-> spheres]
    /\ returned' =
           CASE pass = "bounds" -> ComputeSphereBoundsEncode(<<>>, spheres, sphere_bounds)
             [] pass = "long_axis" -> ComputeLongAxesEncode(<<>>, spheres, long_axes)
             [] OTHER -> ComputeOccluderCirclesEncode(<<>>, spheres, occluder_circles)
    /\ queue' = <<>>
    /\ UNCHANGED <<spheres, sphere_bounds, long_axes, occluder_circles>>
    /\ UNCHANGED outside_passes

CallRender ==
    /\ called' = [fn |-> "render", pass |-> "main", instances |-> spheres]
    /\ returned' = None
    /\ queue' = RendererRender(spheres, sphere_bounds, long_axes)
    /\ UNCHANGED <<spheres, sphere_bounds, long_axes, occluder_circles>>
    /\ UNCHANGED outside_passes

PassInit == ControllerInit /\ GridsIdle /\ PassesInit /\ FrameIdle /\ TrackersIdle

PassNext ==
    \/ CallSpheresRenderBundle
    \/ CallBoundingRectsRenderBundle
    \/ CallLongAxesRenderBundle
    \/ CallOccluderCirclesRenderBundle
    \/ \E pass \in ComputePasses : CallEncode(pass)
    \/ CallRender

PassSpec == PassInit /\ [][PassNext]_vars

---------------------------------------------------------------------------
(* main: the frame loop and the two log tasks *)

\* A buffer of one element, whatever length is asked for.
CreateOneElement(len) == 1

\* device.create_slice_buffer_zeroed(len, usage): the length of the buffer
CreateSliceBufferZeroed(len) == len

\* The buffers main creates from its spheres.
FrameBuffers ==
    /\ spheres \in SphereCounts
    /\ sphere_bounds = CreateSliceBufferZeroed(spheres)
    /\ long_axes = CreateSliceBufferZeroed(spheres)
    /\ occluder_circles = 0
    /\ called = None
    /\ returned = None
    /\ queue = <<>>

\* A loop that renders before it computes.
RenderBeforeCompute(pc) ==
    CASE pc = "await_frame" -> "render"
      [] pc = "render" -> "compute"
      [] OTHER -> "await_frame"

\* The step of the loop body that follows a step.
StepAfter(pc) ==
    CASE pc = "await_frame" -> "compute"
      [] pc = "compute" -> "render"
      [] OTHER -> "await_frame"

\* Quat::inverse of a unit quaternion
QInverse(q) == <<-q[1], -q[2], -q[3], q[4]>>

\* Camera::world_to_camera: the inverse of translation * rotation, held as
\* the rotation and the translation it is made of (x -> r x + t).
WorldToCamera(cam) ==
    LET r == QInverse(cam.orientation)
    IN  [rotation |-> r, translation |-> VScale(QRotate(r, cam.position), -1)]

\* camera.lens().camera_to_clip(): the perspective matrix of the lens main
\* gives the camera, which nothing changes afterwards.
CameraToClip == [perspective_rh |-> "PerspectiveLens"]

\* The matrices a pass is given, read from the camera as it is now.
PassInput(pass) ==
    [pass |-> pass, world_to_camera |-> WorldToCamera(camera),
     camera_to_clip |-> CameraToClip]

\* window.request_animation_frame().await; camera_controller.update_camera
FrameUpdateCamera ==
    /\ frame_pc = "await_frame"
    /\ UpdateCameraCall
    /\ frame_log' = <<[op |-> "update_camera"]>>
    /\ pass_inputs' = <<>>
    /\ frame_pc' = StepAfter(frame_pc)
    /\ UNCHANGED <<readback, grid_vars, pass_vars, tracker_vars>>

\* The two encodes into one encoder and its submit
FrameCompute ==
    /\ frame_pc = "compute"
    /\ LET encoder == ComputeLongAxesEncode(
                          ComputeSphereBoundsEncode(<<>>, spheres, sphere_bounds),
                          spheres, long_axes)
       IN  frame_log' = Append(frame_log, [op |-> "submit", commands |-> encoder])
    /\ pass_inputs' = pass_inputs \o
           <<PassInput("compute_sphere_bounds"), PassInput("compute_long_axes")>>
    /\ frame_pc' = StepAfter(frame_pc)
    /\ UNCHANGED <<readback, controller_vars, grid_vars, pass_vars, tracker_vars>>

\* renderer.render(..).await
FrameRender ==
    /\ frame_pc = "render"
    /\ frame_log' = frame_log \o RendererRender(spheres, sphere_bounds, long_axes)
    /\ pass_inputs' = Append(pass_inputs, PassInput("render"))
    /\ frame_pc' = StepAfter(frame_pc)
    /\ UNCHANGED <<readback, controller_vars, grid_vars, pass_vars, tracker_vars>>

\* A click of a log button, held by the task's event stream.
Click(b) ==
    /\ frame_pc = "await_frame"
    /\ readback[b].clicks < MaxClicks
    /\ readback' = [readback EXCEPT ![b].clicks = @ + 1]
    /\ UNCHANGED <<frame_pc, frame_log, pass_inputs, controller_vars, grid_vars,
                   pass_vars, tracker_vars>>

\* A task that takes a click whatever it is waiting for.
TakesEveryClick(task) == task.clicks > 0

\* Whether the task takes a click now: it does at on_click.next().await.
TakesClick(task) == task.pc = "await_click" /\ task.clicks > 0

\* The task from a click to map_read().await: the copy into the readback
\* buffer, its submit, and the map request.
ReadbackCopyAndMap(b) ==
    /\ frame_pc = "await_frame"
    /\ TakesClick(readback[b])
    /\ readback' = [readback EXCEPT ![b] =
           [pc |-> "await_map", clicks |-> @.clicks - 1, state |-> "pending",
            log |-> <<"copy", "submit", "map_read">>]]
    /\ UNCHANGED <<frame_pc, frame_log, pass_inputs, controller_vars, grid_vars,
                   pass_vars, tracker_vars>>

\* The device maps the readback buffer.
MapResolved(b) ==
    /\ frame_pc = "await_frame"
    /\ readback[b].state = "pending"
    /\ readback' = [readback EXCEPT ![b].state = "mapped"]
    /\ UNCHANGED <<frame_pc, frame_log, pass_inputs, controller_vars, grid_vars,
                   pass_vars, tracker_vars>>

\* The task from map_read().await to on_click.next().await: console::log of
\* the mapped elements, and unmap.
ReadbackLogAndUnmap(b) ==
    /\ frame_pc = "await_frame"
    /\ readback[b].pc = "await_map"
    /\ readback[b].state = "mapped"
    /\ readback' = [readback EXCEPT ![b] =
           [pc |-> "await_click", clicks |-> @.clicks, state |-> "unmapped",
            log |-> @.log \o <<"log", "unmap">>]]
    /\ UNCHANGED <<frame_pc, frame_log, pass_inputs, controller_vars, grid_vars,
                   pass_vars, tracker_vars>>

FrameInit == ControllerInit /\ GridsIdle /\ FrameBuffers /\ FrameIdle /\ TrackersIdle

FrameNext ==
    \/ FrameUpdateCamera
    \/ FrameCompute
    \/ FrameRender
    \/ \E b \in ReadbackBuffers : Click(b)
    \/ \E b \in ReadbackBuffers : ReadbackCopyAndMap(b)
    \/ \E b \in ReadbackBuffers : MapResolved(b)
    \/ \E b \in ReadbackBuffers : ReadbackLogAndUnmap(b)

FrameSpec == FrameInit /\ [][FrameNext]_vars

---------------------------------------------------------------------------
(* main's loop with the controller's tasks: the tasks run while main is at *)
(* request_animation_frame().await, the one await of the loop that        *)
(* suspends (Renderer::render has no await in its body).                  *)

\* main is suspended and other tasks of the executor can run.
Suspended == frame_pc = "await_frame"

FrameEventsNext ==
    \/ FrameUpdateCamera
    \/ FrameCompute
    \/ FrameRender
    \/ Suspended /\ ContextMenu
    \/ Suspended /\ \E delta_y \in WheelDeltas : Wheel(delta_y)
    \/ Suspended /\ \E button \in Buttons : PointerUp(button)
    \/ Suspended /\ \E button \in Buttons : PointerDown(button)
    \/ Suspended /\ \E delta \in MoveDeltas, modifiers \in ModifierStates :
                        PointerMove(delta, modifiers)

\* The buffers are the ones main creates for its one sphere.
FrameEventsSpec == Init /\ [][FrameEventsNext]_vars

---------------------------------------------------------------------------
(* MouseMovementTracker on its own: both constructors, events, drop *)

Some(value) == [kind |-> "Some", value |-> value]

IVec2Sub(a, b) == <<a[1] - b[1], a[2] - b[2]>>

\* The pointer-move events a canvas sends: where the pointer is on the
\* canvas, how far the host says it moved, and the modifier keys.
PointerMoveEvents ==
    {[offset |-> <<3, 1>>, movement |-> <<1, 2>>, modifiers |-> NoModifiers],
     [offset |-> <<5, 4>>, movement |-> <<-2, 1>>,
      modifiers |-> [NoModifiers EXCEPT !.shift_key = TRUE]],
     [offset |-> <<5, 4>>, movement |-> <<1, 2>>, modifiers |-> NoModifiers]}

\* MouseMovementTracker::new
TrackerNew(h) ==
    LET data == [movement |-> <<0, 0>>, origin |-> None, modifiers |-> NoModifiers,
                 pointer_lock |-> FALSE]
    IN  [h EXCEPT !.trackers = (FreshTracker(h) :> data) @@ h.trackers]

\* A free tracker that takes every event for its first.
TrackerOnMoveFreeRestarting(data, event) ==
    [data EXCEPT !.origin = Some(IVec2Sub(event.offset, event.movement)),
                 !.movement = event.movement,
                 !.modifiers = event.modifiers]

\* The pointer-move task of a tracker made by new
TrackerOnMoveFree(data, event) ==
    IF data.origin # None
    THEN [data EXCEPT !.movement = IVec2Sub(event.offset, data.origin.value),
                      !.modifiers = event.modifiers]
    ELSE [data EXCEPT !.origin = Some(IVec2Sub(event.offset, event.movement)),
                      !.movement = event.movement,
                      !.modifiers = event.modifiers]

\* The pointer-move task of a tracker, by the constructor that spawned it.
TrackerDeliver(data, event) ==
    IF data.pointer_lock
    THEN TrackerOnMove(data, event.movement, event.modifiers)
    ELSE TrackerOnMoveFree(data, event)

CreateFree ==
    /\ Cardinality(DOMAIN trackers) < MaxTrackers
    /\ LET h == TrackerNew(Host(<<>>))
       IN  /\ trackers' = h.trackers
           /\ pointer_lock' = h.pointer_lock
           /\ lock_calls' = h.calls
           /\ delivered' = [id \in DOMAIN h.trackers |->
                               IF id \in DOMAIN delivered THEN delivered[id] ELSE <<>>]
    /\ last_read' = None
    /\ UNCHANGED outside_trackers

CreateLocked ==
    /\ Cardinality(DOMAIN trackers) < MaxTrackers
    /\ LET h == TrackerPointerLocked(Host(<<>>))
       IN  /\ trackers' = h.trackers
           /\ pointer_lock' = h.pointer_lock
           /\ lock_calls' = h.calls
           /\ delivered' = [id \in DOMAIN h.trackers |->
                               IF id \in DOMAIN delivered THEN delivered[id] ELSE <<>>]
    /\ last_read' = None
    /\ UNCHANGED outside_trackers

\* A pointer move on the canvas, sent to every subscription not aborted.
Deliver(event) ==
    /\ DOMAIN trackers # {}
    /\ \A id \in DOMAIN trackers : Len(delivered[id]) < MaxEvents
    /\ trackers' = [id \in DOMAIN trackers |-> TrackerDeliver(trackers[id], event)]
    /\ delivered' = [id \in DOMAIN trackers |-> Append(delivered[id], event)]
    /\ lock_calls' = <<>>
    /\ last_read' = None
    /\ UNCHANGED pointer_lock
    /\ UNCHANGED outside_trackers

\* tracker.movement()
ReadMovement(id) ==
    /\ id \in DOMAIN trackers
    /\ last_read' = [tracker |-> id, movement |-> Movement(trackers, id)]
    /\ lock_calls' = <<>>
    /\ UNCHANGED <<trackers, pointer_lock, delivered>>
    /\ UNCHANGED outside_trackers

\* The tracker goes out of scope.
DropOne(id) ==
    /\ id \in DOMAIN trackers
    /\ LET h == DropTracker(Host(<<>>), id)
       IN  /\ trackers' = h.trackers
           /\ pointer_lock' = h.pointer_lock
           /\ lock_calls' = h.calls
           /\ delivered' = [other \in DOMAIN h.trackers |-> delivered[other]]
    /\ last_read' = None
    /\ UNCHANGED outside_trackers

TrackerInit == ControllerInit /\ GridsIdle /\ PassesIdle /\ FrameIdle /\ TrackersIdle

TrackerNext ==
    \/ CreateFree
    \/ CreateLocked
    \/ \E event \in PointerMoveEvents : Deliver(event)
    \/ \E id \in 1..MaxTrackers : ReadMovement(id)
    \/ \E id \in 1..MaxTrackers : DropOne(id)

TrackerSpec == TrackerInit /\ [][TrackerNext]_vars

---------------------------------------------------------------------------
(* Claims about the controller *)

Active == mouse_tracking_session # None

AfterUpdate == since_update = "none"

SessionMovement == Movement(trackers, mouse_tracking_session.tracker)

ExitCalls(calls) == Len(SelectSeq(calls, LAMBDA c : c = "exit_pointer_lock"))

\* The button whose pointer-down creates a session of this kind.
ButtonOf(session) == IF session.kind = "Orbit" THEN "Secondary" ELSE "Auxiliary"

Distance(t) == Length(VSub(t.orbit_point, t.position))

\* C1 as stated: after every update_camera call the accumulated wheel delta
\* is zero, whether or not a session was active when the call was made.
C1_WheelZeroAfterEveryUpdate == AfterUpdate => mouse_wheel_delta = 0

\* C1 as amended: after every update_camera call made while no session is
\* active the accumulated wheel delta is zero, whether or not the dolly was
\* applied.
C1_WheelZeroAfterIdleUpdate == (AfterUpdate /\ ~Active) => mouse_wheel_delta = 0

\* An update_camera call has run with no session active, after a dolly
\* toward the orbit point was applied.
C1_Witness ==
    /\ AfterUpdate
    /\ ~Active
    /\ mouse_wheel_delta = 0
    /\ Distance(camera_transform) < 5 * Scale

\* C2: while a session is active, a pointer-down with the secondary or the
\* auxiliary button leaves the session, its snapshot and its accumulated
\* movement as they were.
C2_PointerDownKeepsActiveSession ==
    [][(Active /\ \E button \in {"Secondary", "Auxiliary"} : PointerDown(button))
          => /\ mouse_tracking_session' = mouse_tracking_session
             /\ started_from' = started_from
             /\ trackers' = trackers]_vars

\* C3: every step that takes a session out of the slot (its end on
\* pointer-up or its replacement by another session) calls
\* exit_pointer_lock exactly once.
C3_ReleaseExactlyOnce ==
    [][(Active /\ mouse_tracking_session' # mouse_tracking_session)
          => ExitCalls(lock_calls') = 1]_vars

\* C4: a pointer-up of a button other than the session's own leaves the
\* session active, and a session leaves the slot only by a pointer-up.
C4_OnlyMatchingPointerUpEnds ==
    [][Active =>
          /\ (\E button \in Buttons \ {ButtonOf(mouse_tracking_session)} : PointerUp(button))
                => mouse_tracking_session' = mouse_tracking_session
          /\ mouse_tracking_session' # mouse_tracking_session
                => PointerUp(ButtonOf(mouse_tracking_session))]_vars

\* C5: with a session active, an update_camera call that follows another
\* with no pointer-move in between leaves the internal transform and the
\* camera's position and orientation as they were.
C5_UpdateIdempotent ==
    [][(since_update' = "none" /\ since_update # "moved" /\ Active /\ started_from # None)
          => /\ camera_transform' = camera_transform
             /\ camera' = camera]_vars

\* A session is active, its tracker has moved, and update_camera has run
\* since and moved the transform off the session's snapshot.
C5_Witness ==
    /\ AfterUpdate
    /\ Active
    /\ SessionMovement # <<0, 0>>
    /\ camera_transform # started_from

\* C6: with no session active and the camera at distance d > 0 from the
\* orbit point, update_camera with wheel delta w moves the position by
\* w / 1000 toward the orbit point when w < 0 or w / 1000 < d, and leaves
\* it where it was otherwise.
C6_DollyClamp ==
    [][(since_update' = "none" /\ ~Active /\ Distance(camera_transform) > 0)
          => LET w == mouse_wheel_delta
                 d == Distance(camera_transform)
                 difference == VSub(camera_transform.orbit_point, camera_transform.position)
                 step == (w * Scale) \div WheelDivisor
                 \* (difference / d) * step
                 moved == VAdd(camera_transform.position, VDiv(VScale(difference, step), d))
             IN  /\ (w < 0 \/ (0 <= step /\ step < d))
                       => camera_transform'.position = moved
                 /\ (w > 0 /\ step >= d)
                       => camera_transform'.position = camera_transform.position]_vars

\* update_camera has run with no session active and left the camera
\* nearer to the orbit point than it started, within reach of the clamp.
C6_Witness ==
    /\ AfterUpdate
    /\ ~Active
    /\ Distance(camera_transform) = (WheelStep * Scale) \div WheelDivisor

\* C7: in an orbit session whose accumulated movement is (0, 0),
\* update_camera yields the position, the orientation and the orbit point
\* the session was started from.
C7_OrbitZeroMovement ==
    (AfterUpdate /\ Active /\ mouse_tracking_session.kind = "Orbit"
         /\ SessionMovement = <<0, 0>>)
        => /\ camera_transform = started_from
           /\ camera.position = started_from.position
           /\ camera.orientation = started_from.orientation

\* update_camera has run in an orbit session with no net movement, begun
\* off the first orbit point.
C7_Witness ==
    /\ AfterUpdate
    /\ Active
    /\ mouse_tracking_session.kind = "Orbit"
    /\ SessionMovement = <<0, 0>>
    /\ started_from.orbit_point # <<0, 0, 0>>

\* C8: the translation of a sidle session with accumulated movement
\* (dx, dy) is up * (dy / 80) + right * (-dx / 80) for the up and right
\* vectors of the transform the session was started from, and has no
\* component along that transform's view direction.
C8_SidleTranslation ==
    (AfterUpdate /\ Active /\ mouse_tracking_session.kind = "Sidle")
        => LET translation == VSub(camera_transform.position, started_from.position)
               dx == SessionMovement[1]
               dy == SessionMovement[2]
               view == QRotate(started_from.orientation, <<0, 0, -1>>)
           IN  /\ translation =
                     VAdd(VDiv(VScale(Up(started_from), dy * Scale), SidleDivisor),
                          VDiv(VScale(Right(started_from), (-dx) * Scale), SidleDivisor))
               /\ Dot(translation, view) = 0

\* update_camera has run in a sidle session that has moved on both axes,
\* begun with a turned camera.
C8_Witness ==
    /\ AfterUpdate
    /\ Active
    /\ mouse_tracking_session.kind = "Sidle"
    /\ SessionMovement[1] # 0
    /\ SessionMovement[2] # 0
    /\ started_from.orientation # Identity

---------------------------------------------------------------------------
(* Claims about the grid geometry *)

\* The grids whose iteration of the outer loop has ended.
Finished == 1..(grid_i - 1)

RECURSIVE SumOver(_, _)
SumOver(count(_), n) == IF n = 0 THEN 0 ELSE SumOver(count, n - 1) + count(grids[n])

BetweenGrids == grid_pc \in {"grid", "done"}

\* C9 as stated: the vertices emitted for a grid of width w and height h
\* are (w + 1)(h + 1) in number.
C9_VerticesAreAllLatticePoints ==
    BetweenGrids => Len(vertex_data) = SumOver(VertexCount, grid_i - 1)

\* 2 (w + h): the four corners and two vertices on each of the w - 1 and
\* h - 1 lines between the sides.
PerimeterCount(grid) == 2 * (grid.width + grid.height)

\* C9 as amended: the vertices emitted for a grid of width w >= 1 and
\* height h >= 1 are 2 (w + h) in number, and each grid's vertices are its
\* own.
C9_VerticesArePerimeterPoints ==
    BetweenGrids =>
        /\ Len(vertex_data) = SumOver(PerimeterCount, grid_i - 1)
        /\ \A g \in Finished :
               Cardinality({k \in 1..Len(vertex_data) : vertex_data[k].grid = g})
                   = PerimeterCount(grids[g])

\* The construction is done for the grid main configures: 80 vertices, not 441.
C9_Witness ==
    /\ grid_pc = "done"
    /\ grids = ConfiguredGrids
    /\ Len(vertex_data) = 80
    /\ VertexCount(grids[1]) = 441

\* C10: the indices emitted for a grid of width w >= 1 and height h >= 1
\* are 4 + 2 (w + h) in number, and the draw call's index count is the
\* number of indices emitted.
C10_IndexCount ==
    /\ BetweenGrids => Len(index_data) = SumOver(IndexCount, grid_i - 1)
    /\ grid_pc = "done" => draw_index_count = Len(index_data)

\* The construction is done for the grid main configures: 84 indices.
C10_Witness ==
    /\ grid_pc = "done"
    /\ grids = ConfiguredGrids
    /\ draw_index_count = 84

---------------------------------------------------------------------------
(* Claims about the passes *)

Submits == SelectSeq(queue, LAMBDA o : o.op = "submit")

\* C11: a dynamic render pass returns None for an instance buffer of length
\* 0, and for length n >= 1 a bundle whose one draw declares n instances.
C11_BundleIffInstances ==
    (called # None /\ called.fn = "render_bundle") =>
        /\ called.instances = 0 => returned = None
        /\ called.instances >= 1 =>
               /\ returned # None
               /\ returned.pass = called.pass
               /\ returned.draws = <<[instance_count |-> called.instances]>>

\* Bounding rectangles were asked for with none and with some instances;
\* here with some.
C11_Witness ==
    /\ called # None
    /\ called.fn = "render_bundle"
    /\ called.pass = "bounding_rects"
    /\ called.instances = MaxInstances
    /\ returned # None

FixedOrder == <<"grids", "sky", "spheres", "bounding_rects", "long_axes">>

\* Whether Renderer::render holds a bundle of the pass.
HasBundle(pass) ==
    CASE pass = "spheres" -> spheres # 0
      [] pass = "bounding_rects" -> sphere_bounds # 0
      [] pass = "long_axes" -> long_axes # 0
      [] OTHER -> TRUE

\* The passes whose bundles a command buffer executes, in order.
RECURSIVE Executed(_)
Executed(commands) ==
    IF commands = <<>> THEN <<>>
    ELSE IF Head(commands).cmd = "execute_bundle"
         THEN <<Head(commands).bundle.pass>> \o Executed(Tail(commands))
         ELSE Executed(Tail(commands))

\* C13: a render call begins one render pass and submits one command
\* buffer, in which grids and sky are executed, then each of spheres,
\* bounding rects and long axes that has a bundle, in that order.
C13_OnePassFixedOrder ==
    (called # None /\ called.fn = "render") =>
        /\ Len(Submits) = 1
        /\ Len(SelectSeq(Submits[1].commands,
                         LAMBDA c : c.cmd = "begin_render_pass")) = 1
        /\ Head(Submits[1].commands).cmd = "begin_render_pass"
        /\ Executed(Submits[1].commands) = SelectSeq(FixedOrder, HasBundle)

\* A render in which the spheres are skipped and the two passes after
\* them are not.
C13_Witness ==
    /\ called # None
    /\ called.fn = "render"
    /\ spheres = 0
    /\ Executed(Submits[1].commands) = <<"grids", "sky", "bounding_rects", "long_axes">>

\* C18: a compute pass dispatches the smallest number g of work-groups
\* with 256 g >= n, for n spheres; none for n = 0.
C18_WorkgroupsCeil ==
    (called # None /\ called.fn = "encode") =>
        /\ Len(returned) = 1
        /\ returned[1].pass = called.pass
        /\ LET g == returned[1].count_x
               n == called.instances
           IN  /\ GROUP_SIZE * g >= n
               /\ \A fewer \in 0..(g - 1) : GROUP_SIZE * fewer < n
               /\ n = 0 => g = 0

\* One sphere more than a full work-group: two work-groups.
C18_Witness ==
    /\ called # None
    /\ called.fn = "encode"
    /\ called.pass = "occluder_circles"
    /\ called.instances = GROUP_SIZE + 1
    /\ returned[1].count_x = 2

---------------------------------------------------------------------------
(* Claims about the frame loop and the log tasks *)

\* The commands of every command buffer submitted in the current frame.
RECURSIVE FrameCommands(_)
FrameCommands(log) ==
    IF log = <<>> THEN <<>>
    ELSE IF Head(log).op = "submit"
         THEN Head(log).commands \o FrameCommands(Tail(log))
         ELSE FrameCommands(Tail(log))

\* C12: in every frame the bounds and long-axis buffers handed to the
\* compute passes and to the renderer are as long as the spheres buffer.
C12_OutputsAsLongAsSpheres ==
    /\ sphere_bounds = spheres
    /\ long_axes = spheres
    /\ LET commands == FrameCommands(frame_log)
       IN  \A k \in 1..Len(commands) :
               /\ commands[k].cmd = "compute_pass" =>
                      /\ commands[k].spheres = spheres
                      /\ commands[k].output = spheres
               /\ (commands[k].cmd = "execute_bundle"
                   /\ commands[k].bundle.pass \in RenderPasses) =>
                      commands[k].bundle.draws[1].instance_count = spheres

\* A whole frame over more spheres than main's one.
C12_Witness ==
    /\ spheres = GROUP_SIZE + 1
    /\ frame_pc = "await_frame"
    /\ Len(FrameCommands(frame_log)) > 2
    /\ \E k \in 1..Len(FrameCommands(frame_log)) :
           /\ FrameCommands(frame_log)[k].cmd = "execute_bundle"
           /\ FrameCommands(frame_log)[k].bundle.pass = "long_axes"

\* What a step of the frame is: the camera update, the submission of the
\* compute passes, the submission of the render pass, or a uniform write.
StepKind(step) ==
    CASE step.op = "update_camera" -> "update_camera"
      [] step.op = "submit" /\ step.commands # <<>>
             /\ \A k \in 1..Len(step.commands) : step.commands[k].cmd = "compute_pass"
           -> "compute"
      [] step.op = "submit" -> "render"
      [] OTHER -> "write"

FrameSteps ==
    LET steps == SelectSeq(frame_log, LAMBDA step : StepKind(step) # "write")
    IN  [k \in 1..Len(steps) |-> StepKind(steps[k])]

FrameOrder == <<"update_camera", "compute", "render">>

\* C14: the steps of a frame are update_camera, the submission of the
\* command buffer with the bounds and the long-axis compute pass, and the
\* submission of the render pass, in this order.
C14_UpdateComputeRender ==
    /\ FrameSteps = SubSeq(FrameOrder, 1, Len(FrameSteps))
    /\ (frame_pc = "await_frame" /\ frame_log # <<>>) => FrameSteps = FrameOrder
    /\ \A k \in 1..Len(frame_log) :
           StepKind(frame_log[k]) = "compute" =>
               [c \in 1..Len(frame_log[k].commands) |-> frame_log[k].commands[c].pass]
                   = <<"bounds", "long_axis">>

\* A frame has run to its end.
C14_Witness ==
    /\ frame_pc = "await_frame"
    /\ FrameSteps = FrameOrder
    /\ since_update = "none"

Cycle == <<"copy", "submit", "map_read", "log", "unmap">>

\* C20: a log task's steps on its readback buffer are copy and submit, map
\* request, log, unmap, in this order, and the task asks for a copy and a
\* mapping only while the buffer is unmapped, whatever clicks and frames
\* come in between.
C20_ReadbackCyclesNeverOverlap ==
    /\ [](\A b \in ReadbackBuffers :
              /\ readback[b].log = SubSeq(Cycle, 1, Len(readback[b].log))
              /\ readback[b].state = "unmapped" <=> Len(readback[b].log) \in {0, Len(Cycle)}
              /\ readback[b].state # "unmapped" => readback[b].log = SubSeq(Cycle, 1, 3))
    /\ [][\A b \in ReadbackBuffers :
              ReadbackCopyAndMap(b) => readback[b].state = "unmapped"]_vars

\* A click waits while the cycle before it is at its map request, and a
\* frame is under way.
C20_Witness ==
    /\ readback["sphere_bounds"].clicks > 0
    /\ readback["sphere_bounds"].state = "pending"
    /\ readback["sphere_bounds"].pc = "await_map"
    /\ frame_pc = "render"

---------------------------------------------------------------------------
(* Claims about sessions and trackers *)

\* C15: with no session active, a pointer-down of the secondary button
\* creates an orbit session and one of the auxiliary button a sidle
\* session, each holding the controller's transform of that moment (the
\* orbit session the position relative to the orbit point); a pointer-down
\* of another button creates none and leaves the controller as it was.
C15_PointerDownFromIdle ==
    [][\A button \in Buttons :
          (~Active /\ PointerDown(button)) =>
              LET session == mouse_tracking_session'
                  now == camera_transform
              IN  CASE button = "Secondary" ->
                           /\ session.kind = "Orbit"
                           /\ session.orbit_point = now.orbit_point
                           /\ session.initial_orientation = now.orientation
                           /\ session.initial_relative_position
                                  = VSub(now.position, now.orbit_point)
                           /\ Movement(trackers', session.tracker) = <<0, 0>>
                           /\ camera_transform' = now
                    [] button = "Auxiliary" ->
                           /\ session.kind = "Sidle"
                           /\ session.initial_position = now.position
                           /\ session.initial_orbit_point = now.orbit_point
                           /\ session.orientation = now.orientation
                           /\ session.up = Up(now)
                           /\ session.right = Right(now)
                           /\ Movement(trackers', session.tracker) = <<0, 0>>
                           /\ camera_transform' = now
                    [] OTHER ->
                           /\ session = None
                           /\ UNCHANGED <<camera_transform, mouse_wheel_delta, camera,
                                          trackers, pointer_lock, pointer_up_listeners>>
      ]_vars

\* An orbit session begun with no session active, from a transform that is
\* not the first one.
C15_Witness ==
    /\ Active
    /\ mouse_tracking_session.kind = "Orbit"
    /\ pointer_up_listeners = 1
    /\ SessionMovement = <<0, 0>>
    /\ started_from = camera_transform
    /\ camera_transform.position # <<0, 0, 5 * Scale>>
    /\ camera_transform.orbit_point # <<0, 0, 0>>
    /\ mouse_tracking_session.initial_relative_position
           = VSub(camera_transform.position, camera_transform.orbit_point)

\* The component-wise sum of the deltas of a sequence of events.
RECURSIVE SumOfDeltas(_)
SumOfDeltas(events) ==
    IF events = <<>> THEN <<0, 0>>
    ELSE LET rest == SumOfDeltas(Tail(events))
         IN  <<Head(events).movement[1] + rest[1], Head(events).movement[2] + rest[2]>>

\* C16: the movement of a pointer-locked tracker is the component-wise sum
\* of the deltas of all the events it was sent since it was created, and
\* reading it returns that sum and changes nothing.
C16_LockedMovementIsSum ==
    /\ [](\A id \in DOMAIN trackers :
              trackers[id].pointer_lock =>
                  Movement(trackers, id) = SumOfDeltas(delivered[id]))
    /\ [][\A id \in 1..MaxTrackers :
              ReadMovement(id) =>
                  /\ trackers' = trackers
                  /\ trackers[id].pointer_lock =>
                         last_read'.movement = SumOfDeltas(delivered[id])]_vars

\* A pointer-locked tracker was sent three events, whose sum is not the
\* last delta, and is read.
C16_Witness ==
    /\ last_read # None
    /\ trackers[last_read.tracker].pointer_lock
    /\ Len(delivered[last_read.tracker]) = MaxEvents
    /\ last_read.movement = SumOfDeltas(delivered[last_read.tracker])
    /\ last_read.movement # delivered[last_read.tracker][MaxEvents].movement

\* C17: dropping a tracker ends its subscription, so that no event is sent
\* to it afterwards, and calls exit_pointer_lock once if the tracker was
\* made pointer-locked and not at all if it was made free.
C17_DropCancelsAndReleasesIfLocked ==
    [][\A id \in 1..MaxTrackers :
          DropOne(id) =>
              /\ id \notin DOMAIN trackers'
              /\ \A other \in DOMAIN trackers' : trackers'[other] = trackers[other]
              /\ ExitCalls(lock_calls') = IF trackers[id].pointer_lock THEN 1 ELSE 0
      ]_vars

\* A pointer-locked tracker was dropped beside a free tracker that had
\* been sent events: the lock is released, the free tracker lives on.
C17_Witness ==
    /\ lock_calls = <<"exit_pointer_lock">>
    /\ Cardinality(DOMAIN trackers) = 1
    /\ \A id \in DOMAIN trackers :
           ~trackers[id].pointer_lock /\ Len(delivered[id]) > 0

\* C19: a free tracker's origin is the first event's offset less its
\* delta, from that event on; its movement is that event's delta after the
\* first event and the last event's offset less the origin after every
\* later one.
C19_FreeMovementIsFromOrigin ==
    \A id \in DOMAIN trackers :
        ~trackers[id].pointer_lock =>
            LET events == delivered[id]
                first == events[1]
                last == events[Len(events)]
                origin == IVec2Sub(first.offset, first.movement)
            IN  /\ events = <<>> =>
                       trackers[id].origin = None /\ trackers[id].movement = <<0, 0>>
                /\ events # <<>> => trackers[id].origin = Some(origin)
                /\ Len(events) = 1 => trackers[id].movement = first.movement
                /\ Len(events) > 1 =>
                       trackers[id].movement = IVec2Sub(last.offset, origin)

\* A free tracker was sent three events, and its movement is not the last
\* one's delta.
C19_Witness ==
    \E id \in DOMAIN trackers :
        /\ ~trackers[id].pointer_lock
        /\ Len(delivered[id]) = MaxEvents
        /\ trackers[id].movement # delivered[id][MaxEvents].movement
        /\ trackers[id].origin = Some(IVec2Sub(delivered[id][1].offset,
                                               delivered[id][1].movement))

---------------------------------------------------------------------------
(* Further claims about the controller *)

\* C21: after an update_camera of a sidle session the position and the
\* orbit point have moved by the same translation and the orientation is
\* the one the session was started from, so position - orbit_point is what
\* it was at the start of the session.
C21_SidleCarriesOrbitPoint ==
    (AfterUpdate /\ Active /\ mouse_tracking_session.kind = "Sidle") =>
        /\ VSub(camera_transform.position, started_from.position)
               = VSub(camera_transform.orbit_point, started_from.orbit_point)
        /\ camera_transform.orientation = started_from.orientation
        /\ VSub(camera_transform.position, camera_transform.orbit_point)
               = VSub(started_from.position, started_from.orbit_point)

\* update_camera has run in a sidle session that has moved the camera.
C21_Witness ==
    /\ AfterUpdate
    /\ Active
    /\ mouse_tracking_session.kind = "Sidle"
    /\ camera_transform.position # started_from.position
    /\ camera_transform.orbit_point # started_from.orbit_point

\* C22: the controller's transform changes in update_camera only: the
\* wheel, context-menu, pointer-down, pointer-move and pointer-up tasks
\* (every step that is not update_camera) leave it and the camera as they
\* are, the accumulator changes in such a step by one wheel event's delta
\* if at all, and update_camera ends with the camera at the transform's
\* position and orientation.
C22_TransformChangesInUpdateOnly ==
    [][/\ since_update' # "none" =>
              /\ camera_transform' = camera_transform
              /\ camera' = camera
              /\ mouse_wheel_delta' # mouse_wheel_delta =>
                     (mouse_wheel_delta' - mouse_wheel_delta) \in WheelDeltas
       /\ since_update' = "none" =>
              /\ camera'.position = camera_transform'.position
              /\ camera'.orientation = camera_transform'.orientation
      ]_vars

\* A session has moved the pointer since the last update_camera, with a
\* wheel delta waiting: the transform is still the one that update left.
C22_Witness ==
    /\ since_update = "moved"
    /\ Active
    /\ mouse_wheel_delta # 0
    /\ SessionMovement # <<0, 0>>
    /\ camera_transform # CurrentTransform(mouse_tracking_session, trackers)
    /\ camera.position = camera_transform.position

\* C23: pointer lock is held in every state with an active session and in
\* no state without one, whatever pointer-downs and pointer-ups came before,
\* a pointer-down during a session included.
C23_LockHeldIffSession == Active <=> pointer_lock

\* C25: after every task of the controller the trackers with a live
\* pointer-move subscription are the active session's one, and none if no
\* session is active; a pointer-move changes that tracker's movement only.
C25_OneSubscriptionIffSession ==
    /\ Cardinality(DOMAIN trackers) = IF Active THEN 1 ELSE 0
    /\ Active => DOMAIN trackers = {mouse_tracking_session.tracker}

\* A session that replaced another has the only subscription, and pointer
\* movement has reached it.
C25_Witness ==
    /\ Active
    /\ pointer_up_listeners = 2
    /\ DOMAIN trackers = {mouse_tracking_session.tracker}
    /\ SessionMovement # <<0, 0>>

\* C26: the position never comes to lie on the orbit point.  With no
\* session active, update_camera moves toward the orbit point only by less
\* than the distance to it and moves away from it by more than nothing; a
\* session's update_camera leaves the distance as it was when the session
\* began.
C26_NeverAtOrbitPoint ==
    /\ camera_transform.position # camera_transform.orbit_point
    /\ Distance(camera_transform) > 0
    /\ (Active /\ AfterUpdate) => Distance(camera_transform) = Distance(started_from)
    /\ ~Active =>
           LET after == Dolly(camera_transform, mouse_wheel_delta)
               step == (mouse_wheel_delta * Scale) \div WheelDivisor
           IN  /\ (mouse_wheel_delta > 0 /\ after # camera_transform)
                      => /\ step < Distance(camera_transform)
                         /\ Distance(after) = Distance(camera_transform) - step
               /\ mouse_wheel_delta < 0 => Distance(after) > Distance(camera_transform)
               /\ after.position # after.orbit_point

\* With no session active a wheel delta waits that would carry the position
\* onto the orbit point: update_camera will not apply it.
C26_Witness ==
    /\ ~Active
    /\ mouse_wheel_delta > 0
    /\ (mouse_wheel_delta * Scale) \div WheelDivisor = Distance(camera_transform)
    /\ Dolly(camera_transform, mouse_wheel_delta) = camera_transform
    /\ camera_transform.orbit_point # <<0, 0, 0>>

\* C27: the transform is at all times the one the last update_camera gave
\* the camera.  The end of a session leaves it so, whatever movement the
\* session's tracker has gathered since that update; with no session and no
\* wheel delta the next update_camera leaves it so as well; and a session
\* that begins snapshots it.
C27_SessionEndKeepsLastUpdate ==
    /\ [](camera = CameraSet(camera_transform))
    /\ [][/\ (Active /\ ~Active') => camera_transform' = camera_transform
          /\ (~Active /\ since_update' = "none" /\ mouse_wheel_delta = 0)
                 => camera_transform' = camera_transform
          /\ (Active' /\ mouse_tracking_session' # mouse_tracking_session)
                 => /\ camera_transform' = camera_transform
                    /\ Movement(trackers', mouse_tracking_session'.tracker) = <<0, 0>>
                    /\ CurrentTransform(mouse_tracking_session', trackers')
                           = camera_transform
         ]_vars

\* A session began after the transform had left its first value, its
\* tracker moved and it ended with no update_camera in between: the
\* transform is the one the camera was given, and the movement is gone.
C27_Witness ==
    /\ ~Active
    /\ since_update = "moved"
    /\ trackers = <<>>
    /\ mouse_wheel_delta = 0
    /\ camera = CameraSet(camera_transform)
    /\ camera_transform.orbit_point # <<0, 0, 0>>

\* C28: a pointer-up future is pending in every state with an active
\* session and in no state without one.  A pointer-up during a session
\* leaves no session and no future; a task that builds a session (its
\* tracker requests pointer lock) spawns one future, and the number of
\* pending futures changes in no other way: none is left over for a session
\* that begins after a pointer-up.
C28_ListenerPendingIffSession ==
    /\ [](Active <=> pointer_up_listeners >= 1)
    /\ [][/\ (Active /\ mouse_wheel_delta' = mouse_wheel_delta /\ since_update' # "none"
                 /\ \E button \in Buttons : PointerUp(button))
                 => ~Active' /\ pointer_up_listeners' = 0
          /\ (lock_calls' # <<>> /\ Head(lock_calls') = "request_pointer_lock")
                 => pointer_up_listeners' = pointer_up_listeners + 1
          /\ pointer_up_listeners' # pointer_up_listeners =>
                 \/ pointer_up_listeners' = 0 /\ ~Active'
                 \/ /\ pointer_up_listeners' = pointer_up_listeners + 1
                    /\ Head(lock_calls') = "request_pointer_lock"
         ]_vars

\* A session with one future pending, begun after an earlier sidle session
\* had moved the orbit point and a pointer-up had ended it.
C28_Witness ==
    /\ Active
    /\ pointer_up_listeners = 1
    /\ started_from.orbit_point # <<0, 0, 0>>
    /\ started_from = camera_transform

---------------------------------------------------------------------------
(* Further claims about the grids *)

\* The grid whose iteration pushed the k-th index.
IndexGrid(k) ==
    CHOOSE g \in 1..Len(grids) :
        /\ SumOver(IndexCount, g - 1) < k
        /\ k <= SumOver(IndexCount, g)

WellFormed(grid) == grid.width >= 1 /\ grid.height >= 1

\* C24: for grids of width and height at least 1, every index in the index
\* buffer is below the number of vertices written and names a vertex of the
\* grid that pushed it: a grid's index offset is the number of vertices of
\* the grids before it.
C24_IndicesNameOwnVertices ==
    (BetweenGrids /\ \A g \in 1..Len(grids) : WellFormed(grids[g])) =>
        /\ grid_i <= Len(grids) => index_offset = Len(vertex_data)
        /\ \A k \in 1..Len(index_data) :
               /\ index_data[k] < Len(vertex_data)
               /\ vertex_data[index_data[k] + 1].grid = IndexGrid(k)

\* C30: the construction ends without an overflow of width - 1 or
\* height - 1 for grids of width and height at least 1, and for those only:
\* at a grid of width 0 or height 0 it panics or its index loop runs away,
\* and no index list comes of it.
C30_CompletesIffWellFormed ==
    /\ grid_pc = "done" => \A g \in 1..Len(grids) : WellFormed(grids[g])
    /\ \A g \in Finished : WellFormed(grids[g])
    /\ grid_pc \in {"panicked", "aborted"} =>
           /\ ~WellFormed(grids[grid_i])
           /\ Wrapped(RangeEnd(grids[grid_i].width))
                  \/ Wrapped(RangeEnd(grids[grid_i].height))
           /\ draw_index_count = 0
    /\ (grid_pc \notin {"idle", "done"} /\ \A g \in 1..Len(grids) : WellFormed(grids[g]))
           => ENABLED GridNext

\* The second grid has width 0: in a build that wraps, its width loop has
\* run away after the first grid's indices and its own corners' were pushed.
C30_Witness ==
    /\ grid_pc = "aborted"
    /\ grid_i = 2
    /\ grids[2].width = 0
    /\ grids[2].height >= 1
    /\ Len(index_data) = IndexCount(grids[1]) + 8 + 2 * MaxRunaway

---------------------------------------------------------------------------
(* Further claims about the frame loop *)

\* C29: within one iteration of main's loop the camera changes in the
\* update_camera at its start only: the controller's tasks, which run while
\* main is suspended, leave it as it is, and the two compute passes and the
\* render pass of an iteration are given the same world_to_camera and
\* camera_to_clip, those of the camera update_camera left.
C29_OneCameraPerFrame ==
    /\ [](\A i \in DOMAIN pass_inputs :
              /\ pass_inputs[i].world_to_camera = pass_inputs[1].world_to_camera
              /\ pass_inputs[i].camera_to_clip = pass_inputs[1].camera_to_clip
              /\ pass_inputs[i].world_to_camera = WorldToCamera(camera))
    /\ [][camera' # camera => (frame_pc = "await_frame" /\ frame_pc' = "compute")]_vars

\* An iteration has ended with its three passes given a camera that is not
\* the first one, and since then a session has begun, the pointer has moved
\* and the wheel has turned.
C29_Witness ==
    /\ Suspended
    /\ Len(pass_inputs) = 3
    /\ pass_inputs[3].pass = "render"
    /\ pass_inputs[1].world_to_camera = pass_inputs[3].world_to_camera
    /\ pass_inputs[1].world_to_camera # WorldToCamera([position |-> <<0, 0, 5 * Scale>>,
                                                       orientation |-> Identity])
    /\ Active
    /\ since_update = "moved"
    /\ mouse_wheel_delta # 0
    /\ CurrentTransform(mouse_tracking_session, trackers) # camera_transform

===========================================================================
